---------------------------- MODULE Spec2Model ----------------------------
(***************************************************************************)
(* A model of blockblog's block interpreter (src/data/block_builder.rs),   *)
(* of its definition loader and of the generation run that drives it       *)
(* (src/generator.rs).                                                     *)
(*                                                                         *)
(* Strings.  A Rust String is modelled as a sequence of atoms.  An atom is *)
(* a TLA+ string that stands for its own characters; the string modelled   *)
(* is the concatenation of the atoms.  Text that the interpreter inspects  *)
(* character by character (block fields, loop values, paths, colours) is   *)
(* always made of one-character atoms; fixed fragments that the code only  *)
(* pushes onto its output ("<h1>", "</div>", the indent unit) are single   *)
(* atoms.  push_str and format! are sequence concatenation.                *)
(***************************************************************************)
EXTENDS Integers, Sequences, FiniteSets, TLC

VARIABLES
    block_items,         \* BlockBuilder.block_items : name -> BlockItem
    debug,               \* BlockBuilderConfig.debug
    debug_assertions,    \* whether the build checks debug_assert_eq!
    indent_level,        \* BlockBuilder.indent_level
    current_file,        \* BlockBuilder.current_file
    current_loop_value,  \* BlockBuilder.current_loop_value
    generated_styles,    \* BlockBuilder.generated_styles : key -> (prop -> value)
    pc,                  \* where the caller of the builder stands
    arg,                 \* the argument of the call being prepared / last made
    result,              \* what the last call returned
    calls,               \* how many inputs / calls have been made so far
    files,               \* the output directory: file name -> content
    safe,                \* generate's `safe` flag
    pending,             \* block names the generate loop has not visited yet
    tree                 \* the input directory handed to the loader

vars == <<block_items, debug, debug_assertions, indent_level, current_file, current_loop_value,
          generated_styles, pc, arg, result, calls, files, safe, pending, tree>>

builderVars == <<block_items, debug, debug_assertions, indent_level,
                 current_file, current_loop_value, generated_styles>>

----------------------------------------------------------------------------
(* Option<T>: None is the empty sequence, Some(x) the one-element sequence. *)

None == <<>>

Some(x) == <<x>>

(* Result<String>: Ok(out) or Err(kind).                                    *)

Ok(out) == [ok |-> TRUE, err |-> "", out |-> out]

Err(kind) == [ok |-> FALSE, err |-> kind, out |-> <<>>]

NoResult == [ok |-> FALSE, err |-> "none", out |-> <<>>]

----------------------------------------------------------------------------
(* Characters and string primitives.                                       *)

Backslash == "\\"

(* The characters of [[:word:]] ([0-9A-Za-z_]) that occur in the model.     *)
WordChars == {"a", "b", "c", "d", "e", "f", "g", "h", "i", "j", "k", "l",
              "m", "n", "o", "p", "q", "r", "s", "t", "u", "v", "w", "x",
              "y", "z", "_", "0", "1", "2", "3", "4", "5", "6", "7", "8",
              "9"}

IsWord(c) == c \in WordChars

(* "$loop_value"                                                           *)
LoopValueVar == <<"$", "l", "o", "o", "p", "_", "v", "a", "l", "u", "e">>

(* "$loop_value_filename"                                                  *)
LoopValueFilenameVar ==
    LoopValueVar \o <<"_", "f", "i", "l", "e", "n", "a", "m", "e">>

(* s[i..] starts with t (positions are 1-based).                            *)
StartsWithAt(s, i, t) ==
    /\ i >= 1
    /\ i + Len(t) - 1 <= Len(s)
    /\ \A k \in 1..Len(t) : s[i + k - 1] = t[k]

(* s[from..to], empty when from > to.                                       *)
Slice(s, from, to) == IF from > to THEN <<>> ELSE SubSeq(s, from, to)

(* A third group that accepts any following character.                      *)
FollowEndAnyChar(s, j) ==
    IF j <= Len(s) THEN j + 1
    ELSE IF j = Len(s) + 1 THEN j
    ELSE 0

(* The third group of the pattern, ([[:^word:]]|$), tried at position j:    *)
(* a non-word character, else the end of the haystack.                      *)
FollowEnd(s, j) ==
    IF j <= Len(s) /\ ~IsWord(s[j]) THEN j + 1
    ELSE IF j = Len(s) + 1 THEN j
    ELSE 0

(* A first group that accepts a backslash too.                              *)
CharAlternativeEndAnyChar(s, i, tok) ==
    IF i <= Len(s) /\ StartsWithAt(s, i + 1, tok)
    THEN FollowEnd(s, i + 1 + Len(tok)) ELSE 0

(* ([^\\]|^)(tok)([[:^word:]]|$) with the match starting at i: the position *)
(* after the match, or 0 for no match at i.  The first alternative of group *)
(* one consumes one character that is not a backslash ...                   *)
CharAlternativeEnd(s, i, tok) ==
    IF i <= Len(s) /\ s[i] # Backslash /\ StartsWithAt(s, i + 1, tok)
    THEN FollowEnd(s, i + 1 + Len(tok)) ELSE 0

(* ... and the second is the anchor, which holds at the start of the        *)
(* haystack only.                                                           *)
AnchorAlternativeEnd(s, i, tok) ==
    IF i = 1 /\ StartsWithAt(s, 1, tok)
    THEN FollowEnd(s, 1 + Len(tok)) ELSE 0

FirstNonZero(a, b) == IF a # 0 THEN a ELSE b

MatchEndAt(s, i, tok) ==
    FirstNonZero(CharAlternativeEnd(s, i, tok), AnchorAlternativeEnd(s, i, tok))

(* Where the placeholder itself starts in a match that starts at i.         *)
TokStartAt(s, i, tok) ==
    IF CharAlternativeEnd(s, i, tok) # 0 THEN i + 1 ELSE i

(* The least element of a set of positions, 0 for the empty set.            *)
LeastOrZero(S) == IF S = {} THEN 0 ELSE CHOOSE m \in S : \A n \in S : m <= n

(* The start of the leftmost match at or after pos, 0 when there is none.   *)
FirstMatch(s, pos, tok) ==
    LeastOrZero({i \in pos..Len(s) : MatchEndAt(s, i, tok) # 0})

(* Regex::replace_all with the closure format!("{}{}{}", caps[1], val,      *)
(* caps[3]): leftmost matches, none overlapping, the search resuming where  *)
(* the previous match ended.  ReplaceMatch rewrites the match whose         *)
(* placeholder starts at t and which ends before e.                         *)
RECURSIVE RegexReplaceAllFrom(_, _, _, _)

ReplaceMatch(s, pos, tok, val, t, e) ==
    Slice(s, pos, t - 1) \o val \o Slice(s, t + Len(tok), e - 1)
      \o RegexReplaceAllFrom(s, e, tok, val)

ReplaceFirst(s, pos, tok, val, i) ==
    IF i = 0 THEN Slice(s, pos, Len(s))
    ELSE ReplaceMatch(s, pos, tok, val, TokStartAt(s, i, tok),
                      MatchEndAt(s, i, tok))

RegexReplaceAllFrom(s, pos, tok, val) ==
    ReplaceFirst(s, pos, tok, val, FirstMatch(s, pos, tok))

RegexReplaceAll(s, tok, val) == RegexReplaceAllFrom(s, 1, tok, val)

(* str::replace(from, to): every non-overlapping occurrence, left to right. *)
RECURSIVE StrReplaceFrom(_, _, _, _)
StrReplaceFrom(s, pos, from, to) ==
    IF pos > Len(s) THEN <<>>
    ELSE IF StartsWithAt(s, pos, from)
    THEN to \o StrReplaceFrom(s, pos + Len(from), from, to)
    ELSE <<s[pos]>> \o StrReplaceFrom(s, pos + 1, from, to)

StrReplace(s, from, to) == StrReplaceFrom(s, 1, from, to)

----------------------------------------------------------------------------
(* Path::file_stem on a Unix path.                                          *)

(* The text of s before its first '/' at or after position i.               *)
RECURSIVE SegmentEnd(_, _)
SegmentEnd(s, i) ==
    IF i > Len(s) \/ s[i] = "/" THEN i ELSE SegmentEnd(s, i + 1)

(* The '/'-separated segments of s from position i on.                      *)
RECURSIVE Segments(_, _)
Segments(s, i) ==
    IF i > Len(s) + 1 THEN <<>>
    ELSE LET e == SegmentEnd(s, i)
         IN  <<Slice(s, i, e - 1)>> \o Segments(s, e + 1)

(* Path::components: empty segments and "." segments are dropped, except a  *)
(* leading "." of a relative path; a leading '/' is the root component.     *)
Components(s) ==
    LET segs == Segments(s, 1)
        rooted == Len(s) >= 1 /\ s[1] = "/"
        keep(k) == /\ segs[k] # <<>>
                   /\ (segs[k] = <<".">> => (k = 1 /\ ~rooted))
    IN  (IF rooted THEN <<<<"/">>>> ELSE <<>>)
          \o SelectSeq([k \in 1..Len(segs) |->
                          IF keep(k) THEN segs[k] ELSE <<>>],
                       LAMBDA c : c # <<>>)

(* Path::file_name: the last component when it is a normal one.             *)
FileName(s) ==
    LET cs == Components(s)
    IN  IF cs = <<>> THEN None
        ELSE LET last == cs[Len(cs)]
             IN  IF last \in {<<"/">>, <<".">>, <<".", ".">>}
                 THEN None ELSE Some(last)

(* The position of the last '.' of name, 0 when it has none.                *)
LastDot(name) ==
    LET dots == {i \in 1..Len(name) : name[i] = "."}
    IN  IF dots = {} THEN 0 ELSE CHOOSE i \in dots : \A j \in dots : j <= i

(* A file stem that ends at the first '.' of the file name.                  *)
FileStemAtFirstDot(s) ==
    LET fn == FileName(s)
    IN  IF fn = None THEN None
        ELSE LET name == fn[1]
                 dots == {i \in 2..Len(name) : name[i] = "."}
             IN  IF dots = {} THEN Some(name)
                 ELSE Some(Slice(name, 1,
                                 (CHOOSE i \in dots : \A j \in dots : i <= j)
                                   - 1))

(* Path::file_stem: the file name up to its last '.', the whole name when   *)
(* it has no '.' or only a leading one.                                     *)
FileStem(s) ==
    LET fn == FileName(s)
    IN  IF fn = None THEN None
        ELSE LET name == fn[1]
                 d == LastDot(name)
             IN  IF d <= 1 THEN Some(name) ELSE Some(Slice(name, 1, d - 1))

(* Path::extension of a file name: the text after its last '.', None when   *)
(* the name has no '.' or only a leading one.                               *)
Extension(name) ==
    LET d == LastDot(name)
    IN  IF d <= 1 THEN None ELSE Some(Slice(name, d + 1, Len(name)))

----------------------------------------------------------------------------
(* BlockBuilder: the methods that read the loop value.  `self` is the       *)
(* record of the builder's mutable fields.                                  *)

Self == [indent_level |-> indent_level, current_file |-> current_file,
         current_loop_value |-> current_loop_value,
         generated_styles |-> generated_styles,
         debug_assertions |-> debug_assertions, stack |-> 0]

loop_value(self) == self.current_loop_value

(* A loop_value_filename that falls back to the loop value itself.          *)
loop_value_filename_or_value(self) ==
    IF FileStem(self.current_loop_value) = None
    THEN self.current_loop_value
    ELSE FileStem(self.current_loop_value)[1]

loop_value_filename(self) ==
    LET stem == FileStem(self.current_loop_value)
    IN  IF stem = None THEN <<>> ELSE stem[1]

(* process_special_values never fails: both patterns compile.               *)
process_special_values(self, value) ==
    LET cached_filename == Some(loop_value_filename(self))
        cached_loop_value == loop_value(self)
        s1 == IF cached_filename # None
              THEN StrReplace(
                     RegexReplaceAll(value, LoopValueFilenameVar,
                                     cached_filename[1]),
                     <<Backslash>> \o LoopValueFilenameVar,
                     LoopValueFilenameVar)
              ELSE value
        s2 == RegexReplaceAll(s1, LoopValueVar, cached_loop_value)
    IN  StrReplace(s2, <<Backslash>> \o LoopValueVar, LoopValueVar)

----------------------------------------------------------------------------
(* Color and its Display: "#rrggbb" in lowercase hex.                       *)

HexDigits == <<"0", "1", "2", "3", "4", "5", "6", "7", "8", "9",
               "a", "b", "c", "d", "e", "f">>

(* {:02x} of a u8                                                           *)
Hex2(n) == <<HexDigits[(n \div 16) + 1], HexDigits[(n % 16) + 1]>>

ColorToString(c) == <<"#">> \o Hex2(c.r) \o Hex2(c.g) \o Hex2(c.b)

(* str::trim_start_matches(ch)                                              *)
RECURSIVE TrimStartMatches(_, _)
TrimStartMatches(s, ch) ==
    IF s # <<>> /\ Head(s) = ch THEN TrimStartMatches(Tail(s), ch) ELSE s

----------------------------------------------------------------------------
(* BlockItem, LinkStyle and Head values.  Every item is a record with the   *)
(* same fields; a variant uses the fields it has and leaves the others at   *)
(* their defaults.                                                          *)

BlankItem ==
    [type |-> "Br", text |-> <<>>, alt |-> None, url |-> <<>>,
     link_style |-> None, style |-> None, html_type |-> None,
     items |-> <<>>, values |-> None, pattern |-> None,
     head |-> None, body |-> None, params |-> None]

Include(name) == [BlankItem EXCEPT !.type = "Include", !.text = name]

IncludeVerbose(path, params) ==
    [BlankItem EXCEPT !.type = "IncludeVerbose", !.text = path,
                      !.params = params]

Title(t) == [BlankItem EXCEPT !.type = "Title", !.text = t]

Block(style, html_type, items) ==
    [BlankItem EXCEPT !.type = "Block", !.style = style,
                      !.html_type = html_type, !.items = items]

Markdown(src) == [BlankItem EXCEPT !.type = "Markdown", !.text = src]

Code(src) == [BlankItem EXCEPT !.type = "Code", !.text = src]

Image(path, alt) ==
    [BlankItem EXCEPT !.type = "Image", !.text = path, !.alt = alt]

Text(raw) == [BlankItem EXCEPT !.type = "Text", !.text = raw]

Link(t, url, link_style) ==
    [BlankItem EXCEPT !.type = "Link", !.text = t, !.url = url,
                      !.link_style = Some(link_style)]

Br == BlankItem

ForEach(values, pattern, items) ==
    [BlankItem EXCEPT !.type = "ForEach", !.values = values,
                      !.pattern = pattern, !.items = items]

LoopValue == [BlankItem EXCEPT !.type = "LoopValue"]

LoopValueFileName == [BlankItem EXCEPT !.type = "LoopValueFileName"]

Html(head, body) ==
    [BlankItem EXCEPT !.type = "Html", !.head = head, !.body = body]

Explicit(underline, normal, hover, visited_color) ==
    [kind |-> "Explicit", name |-> <<>>, underline |-> underline,
     color |-> [normal |-> normal, hover |-> hover],
     visited_color |-> visited_color]

Style(name) ==
    [kind |-> "Style", name |-> name, underline |-> FALSE,
     color |-> [normal |-> [r |-> 0, g |-> 0, b |-> 0], hover |-> None],
     visited_color |-> None]

----------------------------------------------------------------------------
(* BlockBuilder.  Every method takes `self`, the record of the builder's    *)
(* mutable fields, and gives a Result together with the fields as the       *)
(* method left them: an error return (the ? operator) leaves them as they   *)
(* were at the point of the return.  self.stack counts the activations of   *)
(* construct_by_name on the call stack; the stack holds MaxStack of them.   *)

MaxStack == 3

(* BlockBuilderConfig.indent_string as generate sets it                     *)
IndentString == "    "

Done(r, self) == [ok |-> r.ok, err |-> r.err, out |-> r.out, self |-> self]

(* let x = v; K(x): v is evaluated once and K applied to its value.         *)
Bind(v, K(_)) == CHOOSE y \in {K(x) : x \in {v}} : TRUE

RECURSIVE construct_by_name(_, _)
RECURSIVE construct_block(_, _)
RECURSIVE ConstructItems(_, _, _)

get_indent(self) == [i \in 1..self.indent_level |-> IndentString]

title(t) == <<"<h1>">> \o t \o <<"</h1>">>

(* markdown::to_html belongs to the markdown crate; only that it wraps its  *)
(* input is modelled.                                                       *)
markdown(md) == <<"<markdown>">> \o md \o <<"</markdown>">>

code(c) == <<"<pre><code>", "\n">> \o c \o <<"\n", "</code></pre>">>

image(path, alt) ==
    <<"<img src=\"">> \o path \o <<"\" alt=\"">>
      \o (IF alt = None THEN <<>> ELSE alt[1]) \o <<"\" />">>

text(t) == t

br == <<"<br />">>

(* The class name link() gives an Explicit style.                           *)
LinkClass(ls) ==
    <<"link-">> \o TrimStartMatches(ColorToString(ls.color.normal), "#")
      \o <<"-">> \o (IF ls.underline THEN <<"underline">> ELSE <<"none">>)

(* HashMap::insert                                                          *)
Insert(map, k, v) ==
    [x \in DOMAIN map \cup {k} |-> IF x = k THEN v ELSE map[x]]

Anchor(url, class, t) ==
    <<"<a href=\"">> \o url \o <<"\" class=\"">> \o class \o <<"\">">>
      \o t \o <<"</a>">>

(* A link() that stores no :active entry.                                    *)
link_without_active(self, t, url, ls) ==
    IF ls.kind = "Explicit"
    THEN LET normal0 == Insert(<<>>, "color", ColorToString(ls.color.normal))
             hover0 ==
                 Insert(<<>>, "color",
                        IF ls.color.hover # None
                        THEN ColorToString(ls.color.hover[1])
                        ELSE ColorToString(ls.color.normal))
             normal_style ==
                 IF ls.underline
                 THEN Insert(normal0, "text-decoration", <<"underline">>)
                 ELSE normal0
             hover_style == Insert(hover0, "text-decoration", <<"underline">>)
             visited_style ==
                 IF ls.visited_color # None
                 THEN Insert(normal_style, "color",
                             ColorToString(ls.visited_color[1].normal))
                 ELSE normal_style
             class == LinkClass(ls)
             g1 == Insert(self.generated_styles, class \o <<":link">>,
                          normal_style)
             g2 == Insert(g1, class \o <<":visited">>, visited_style)
             g3 == Insert(g2, class \o <<":hover">>, hover_style)
         IN  Done(Ok(Anchor(url, class, t)),
                  [self EXCEPT !.generated_styles = g3])
    ELSE Done(Ok(Anchor(url, ls.name, t)), self)

link(self, t, url, ls) ==
    IF ls.kind = "Explicit"
    THEN LET normal0 == Insert(<<>>, "color", ColorToString(ls.color.normal))
             hover0 ==
                 Insert(<<>>, "color",
                        IF ls.color.hover # None
                        THEN ColorToString(ls.color.hover[1])
                        ELSE ColorToString(ls.color.normal))
             normal_style ==
                 IF ls.underline
                 THEN Insert(normal0, "text-decoration", <<"underline">>)
                 ELSE normal0
             hover_style == Insert(hover0, "text-decoration", <<"underline">>)
             visited_style ==
                 IF ls.visited_color # None
                 THEN Insert(normal_style, "color",
                             ColorToString(ls.visited_color[1].normal))
                 ELSE normal_style
             class == LinkClass(ls)
             g1 == Insert(self.generated_styles, class \o <<":link">>,
                          normal_style)
             g2 == Insert(g1, class \o <<":visited">>, visited_style)
             g3 == Insert(g2, class \o <<":hover">>, hover_style)
             g4 == Insert(g3, class \o <<":active">>, hover_style)
         IN  Done(Ok(Anchor(url, class, t)),
                  [self EXCEPT !.generated_styles = g4])
    ELSE Done(Ok(Anchor(url, ls.name, t)), self)

(* for item in items { output.push_str(&self.construct_block(item)?) }      *)
(* continuing an output `out`.                                              *)
ConstructItems(self, items, out) ==
    IF items = <<>> THEN Done(Ok(out), self)
    ELSE Bind(construct_block(self, Head(items)),
              LAMBDA r : IF ~r.ok THEN r
                         ELSE ConstructItems(r.self, Tail(items),
                                             out \o r.out))

block(self, style, html_type, items) ==
    LET ty == IF html_type = None THEN <<"div">> ELSE html_type[1]
        open == get_indent(self)
                  \o (IF style # None
                      THEN <<"<">> \o ty \o <<" class=\"">> \o style[1]
                             \o <<"\">">>
                      ELSE <<"<">> \o ty \o <<">">>)
                  \o <<"\n">>
        close(r) ==
            Bind([r.self EXCEPT !.indent_level = r.self.indent_level - 1],
                 LAMBDA s2 :
                    Done(Ok(r.out \o get_indent(s2) \o <<"</">> \o ty
                              \o <<">">>),
                         s2))
    IN  Bind(ConstructItems(
                 [self EXCEPT !.indent_level = self.indent_level + 1],
                 items, open),
             LAMBDA r : IF ~r.ok THEN r ELSE close(r))

(* The loop of for_each over the values still to visit.                     *)
RECURSIVE ForEachFrom(_, _, _, _)
ForEachFrom(self, values, items, out) ==
    IF values = <<>> THEN Done(Ok(out), self)
    ELSE Bind(ConstructItems(
                  [self EXCEPT !.current_loop_value = Head(values)],
                  items, out),
              LAMBDA r : IF ~r.ok THEN r
                         ELSE ForEachFrom(r.self, Tail(values), items, r.out))

(* A for_each that puts the loop value back when it is done.                *)
for_each_restoring(self, values, items) ==
    Bind(ForEachFrom(self, values, items, <<>>),
         LAMBDA r : IF ~r.ok THEN r
                    ELSE Done(r, [r.self EXCEPT !.current_loop_value =
                                                   self.current_loop_value]))

for_each(self, values, items) == ForEachFrom(self, values, items, <<>>)

(* glob::glob_with(input_dir + "/" + pattern): the glob crate's            *)
(* enumeration.  Modelled for patterns "*.<ext>": the files directly in    *)
(* the input directory with that extension, in one fixed order.            *)
RECURSIVE SetToSeq(_)
SetToSeq(S) ==
    IF S = {} THEN <<>>
    ELSE LET x == CHOOSE y \in S : TRUE IN <<x>> \o SetToSeq(S \ {x})

Glob(pattern) ==
    SetToSeq({f.name : f \in {g \in tree :
                 /\ g.dir = <<>>
                 /\ Len(pattern) >= 2
                 /\ pattern[1] = "*"
                 /\ pattern[2] = "."
                 /\ Extension(g.name)
                      = Some(Slice(pattern, 3, Len(pattern)))}})

(* The loop of for_each_file over the entries still to visit.               *)
RECURSIVE ForEachFileFrom(_, _, _, _)
ForEachFileFrom(self, entries, items, out) ==
    IF entries = <<>> THEN Done(Ok(out), self)
    ELSE Bind(ConstructItems(
                  [self EXCEPT !.current_file = Head(entries),
                               !.current_loop_value = Head(entries)],
                  items, out),
              LAMBDA r : IF ~r.ok THEN r
                         ELSE ForEachFileFrom(r.self, Tail(entries), items,
                                              r.out))

for_each_file(self, pattern, items) ==
    ForEachFileFrom(self, Glob(pattern), items, <<>>)

(* The lines html() writes into <head> from a Head value.                   *)
HeadLines(self, head) ==
    LET ind == get_indent(self)
        each(list, open, close) ==
            IF list = None THEN <<>>
            ELSE LET F[k \in 0..Len(list[1])] ==
                         IF k = 0 THEN <<>>
                         ELSE F[k - 1] \o ind \o <<open>> \o list[1][k]
                                \o <<close, "\n">>
                 IN  F[Len(list[1])]
    IN  (IF head.title # None
         THEN ind \o <<"<title>">> \o head.title[1] \o <<"</title>", "\n">>
         ELSE <<>>)
          \o (IF head.icon # None
              THEN ind \o <<"<link rel=\"icon\" href=\"">> \o head.icon[1]
                     \o <<"\" type=\"image/x-icon\" />", "\n">>
              ELSE <<>>)
          \o each(head.styles, "<link rel=\"stylesheet\" href=\"", "\" />")
          \o each(head.scripts, "<script src=\"", "\" />")

(* An end of html() that leaves out the last `self.indent_level -= 1`.      *)
HtmlCloseNoDecrement(self, r) ==
    LET s5 == [r.self EXCEPT !.indent_level = r.self.indent_level - 1]
    IN  Done(Ok(r.out \o get_indent(s5) \o <<"</body>", "\n">>
                  \o <<"</html>", "\n">>),
             s5)

(* The end of html(), from the `self.indent_level -= 1` after the body on;  *)
(* r is the result so far.  debug_assert_eq!(self.indent_level, 0) panics   *)
(* in a build with debug assertions and is absent from a release build.     *)
HtmlClose(self, r) ==
    LET s5 == [r.self EXCEPT !.indent_level = r.self.indent_level - 1]
        s6 == [s5 EXCEPT !.indent_level = s5.indent_level - 1]
        o2 == r.out \o get_indent(s5) \o <<"</body>", "\n">>
                \o <<"</html>", "\n">>
    IN  IF self.debug_assertions /\ s6.indent_level # 0
        THEN Done(Err("Panic"), s6)
        ELSE Done(Ok(o2), s6)

html(self, head, body) ==
    LET s1 == [self EXCEPT !.indent_level = self.indent_level + 1]
        s2 == [s1 EXCEPT !.indent_level = s1.indent_level + 1]
        s3 == [s2 EXCEPT !.indent_level = s2.indent_level - 1]
        s4 == [s3 EXCEPT !.indent_level = s3.indent_level + 1]
        o1 == <<"<!DOCTYPE html>", "\n", "<html>", "\n">>
                \o get_indent(s1) \o <<"<head>", "\n">>
                \o get_indent(s2) \o <<"<meta charset=\"utf-8\">", "\n">>
                \o (IF head # None THEN HeadLines(s2, head[1]) ELSE <<>>)
                \o get_indent(s3) \o <<"</head>", "\n">>
                \o get_indent(s3) \o <<"<body>", "\n">>
    IN  Bind(IF body # None THEN ConstructItems(s4, body[1], o1)
             ELSE Done(Ok(o1), s4),
             LAMBDA r : IF ~r.ok THEN r ELSE HtmlClose(self, r))

(* An include() that finds the block and does not render it.                *)
include_unrendered(self, included_block_name) ==
    IF included_block_name \in DOMAIN block_items
    THEN Done(Ok(<<>>), self)
    ELSE Done(Err("NotFound"), self)

(* include() and include_verbose() have the same body.                      *)
include(self, included_block_name) ==
    IF included_block_name \in DOMAIN block_items
    THEN LET o1 == IF debug
                   THEN get_indent(self) \o <<"<!-- Including block ">>
                          \o included_block_name \o <<" -->", "\n">>
                   ELSE <<>>
             old_file == self.current_file
         IN  Bind(construct_by_name(
                      [self EXCEPT !.current_file = included_block_name],
                      included_block_name),
                  LAMBDA r :
                     IF ~r.ok THEN r
                     ELSE Done(Ok(o1 \o r.out),
                               [r.self EXCEPT !.current_file = old_file]))
    ELSE Done(Err("NotFound"), self)

include_verbose(self, included_block_name, params) ==
    include(self, included_block_name)

construct_by_name(self, block_name) ==
    IF block_name \notin DOMAIN block_items
    THEN Done(Err("NotFound"), self)
    ELSE IF self.stack >= MaxStack
    THEN Done(Err("StackOverflow"), self)
    ELSE Bind(construct_block([self EXCEPT !.stack = self.stack + 1],
                              block_items[block_name]),
              LAMBDA r : Done(r, [r.self EXCEPT !.stack = self.stack]))

(* The second match of the ForEach arm: the pattern mode, after r1, the     *)
(* result of the values mode.                                               *)
PatternMode(item, r1) ==
    IF ~r1.ok THEN r1
    ELSE IF item.pattern # None
    THEN Bind(for_each_file(r1.self, item.pattern[1], item.items),
              LAMBDA r2 : IF ~r2.ok THEN r2
                          ELSE Done(Ok(r1.out \o r2.out), r2.self))
    ELSE r1

(* The two matches of the ForEach arm, the values mode and then the         *)
(* pattern mode.                                                            *)
ForEachModes(self, item) ==
    Bind(IF item.values # None
         THEN for_each(self, item.values[1], item.items)
         ELSE Done(Ok(<<>>), self),
         LAMBDA r1 : PatternMode(item, r1))

(* A ForEach arm without the test for both modes.                           *)
ForEachArmUnchecked(self, item) == ForEachModes(self, item)

(* The ForEach arm of construct_block.                                      *)
ForEachArm(self, item) ==
    IF item.values # None /\ item.pattern # None
    THEN Done(Err("InvalidInput"), self)
    ELSE ForEachModes(self, item)

(* The match of construct_block, before the final push('\n').  `sub` is    *)
(* process_special_values of the item's text field, which the arms of the   *)
(* variants that have one compute first.                                    *)
Dispatch(self, item, sub) ==
    LET indented(r) == Done(Ok(get_indent(self) \o r.out), r.self)
        plain(out) == Done(Ok(get_indent(self) \o out), self)
    IN  CASE item.type = "Include" -> include(self, sub)
          [] item.type = "Title" -> plain(title(sub))
          [] item.type = "Block" ->
                block(self, item.style, item.html_type, item.items)
          [] item.type = "Markdown" -> plain(markdown(sub))
          [] item.type = "Code" -> plain(code(sub))
          [] item.type = "Image" -> plain(image(sub, item.alt))
          [] item.type = "Text" -> plain(text(sub))
          [] item.type = "Link" ->
                Bind(link(self, sub, item.url, item.link_style[1]),
                     LAMBDA r : indented(r))
          [] item.type = "Br" -> plain(br)
          [] item.type = "IncludeVerbose" ->
                Bind(include_verbose(self, sub, item.params),
                     LAMBDA r : IF r.ok THEN indented(r) ELSE r)
          [] item.type = "ForEach" -> ForEachArm(self, item)
          [] item.type = "LoopValue" -> plain(loop_value(self))
          [] item.type = "LoopValueFileName" ->
                plain(loop_value_filename(self))
          [] item.type = "Html" -> html(self, item.head, item.body)

construct_block(self, item) ==
    Bind(Dispatch(self, item, process_special_values(self, item.text)),
         LAMBDA r : IF ~r.ok THEN r ELSE Done(Ok(r.out \o <<"\n">>), r.self))

(* BlockBuilder::get_generated_styles, in one iteration order of the maps.  *)
get_generated_styles(self) ==
    LET rule(class) ==
            LET st == self.generated_styles[class]
                props == SetToSeq(DOMAIN st)
                F[k \in 0..Len(props)] ==
                    IF k = 0 THEN <<>>
                    ELSE F[k - 1] \o <<"\t", props[k], ": ">> \o st[props[k]]
                           \o <<";", "\n">>
            IN  class \o <<" {", "\n">> \o F[Len(props)] \o <<"}", "\n", "\n">>
        classes == SetToSeq(DOMAIN self.generated_styles)
        G[k \in 0..Len(classes)] ==
            IF k = 0 THEN <<>> ELSE G[k - 1] \o rule(classes[k])
    IN  G[Len(classes)]

----------------------------------------------------------------------------
(* The definition loader.  The input directory is a set of files, each      *)
(* [dir |-> the directories from the root down to it, name |-> its file     *)
(* name, parses |-> whether serde_yaml accepts its body, item |-> the       *)
(* BlockItem the body parses to].  A directory exists when a file lies in   *)
(* or below it.                                                             *)

File(dir, name, parses, item) ==
    [dir |-> dir, name |-> name, parses |-> parses, item |-> item]

(* Path::to_str of a relative path: its components joined with '/'.         *)
RECURSIVE PathToStr(_)
PathToStr(dirs) ==
    IF dirs = <<>> THEN <<>>
    ELSE IF Len(dirs) = 1 THEN <<dirs[1]>>
    ELSE <<dirs[1], "/">> \o PathToStr(Tail(dirs))

IsPrefix(d, e) == Len(d) <= Len(e) /\ SubSeq(e, 1, Len(d)) = d

(* read_dir(input): the files that lie directly in `input` ...              *)
FilesIn(input) == {f \in tree : f.dir = input}

(* ... and the names of its subdirectories.                                 *)
SubDirsOf(input) ==
    {f.dir[Len(input) + 1] : f \in {g \in tree : IsPrefix(input, g.dir)
                                                  /\ Len(g.dir) > Len(input)}}

(* The errors get_block_definitions(input, base_input) can return with: a   *)
(* file without extension, a .yml file serde_yaml rejects, or an error of   *)
(* a recursive call.  `input` is given relative to base_input.              *)
RECURSIVE LoadErrors(_)
LoadErrors(input) ==
    {"InvalidInput" : f \in {g \in FilesIn(input) : Extension(g.name) = None}}
      \cup {"Other" : f \in {g \in FilesIn(input) :
                               Extension(g.name) = Some(<<"y", "m", "l">>)
                                 /\ ~g.parses}}
      \cup UNION {LoadErrors(input \o <<n>>) : n \in SubDirsOf(input)}

(* The insertions get_block_definitions(input, base_input) makes into       *)
(* `definitions`, as <<key, item>> pairs.  A .yml file goes in under its    *)
(* file stem.  For a subdirectory, every name the recursive call returns is *)
(* prefixed with path_relative_to_input, which strip_prefix computed        *)
(* against base_input, not against `input`.                                 *)
RECURSIVE Definitions(_)
Definitions(input) ==
    {<<FileStem(f.name)[1], f.item>> :
        f \in {g \in FilesIn(input) :
                 Extension(g.name) = Some(<<"y", "m", "l">>)}}
      \cup UNION {
             {<<PathToStr(input \o <<n>>) \o <<"/">> \o kv[1], kv[2]>> :
                 kv \in Definitions(input \o <<n>>)} :
             n \in SubDirsOf(input)}

(* HashMap::insert keeps, for a key inserted twice, the later value; which  *)
(* one is later follows read_dir's order.                                   *)
AsMap(pairs) ==
    [k \in {kv[1] : kv \in pairs} |->
        (CHOOSE kv \in pairs : kv[1] = k)[2]]

get_block_definitions(input) ==
    IF LoadErrors(input) # {}
    THEN [ok |-> FALSE, errs |-> LoadErrors(input), map |-> <<>>]
    ELSE [ok |-> TRUE, errs |-> {}, map |-> AsMap(Definitions(input))]

----------------------------------------------------------------------------
(* The specification of the loader: files are put into an empty input       *)
(* directory, at most MaxFiles of them and at most MaxDepth directories     *)
(* deep, and BlockBuilder::new then loads it.                               *)

MaxFiles == 2

MaxDepth == 2

DirNames == {"a", "b"}

(* "x.yml", "n.md" and "r", which has no extension                          *)
FileNames == {<<"x", ".", "y", "m", "l">>, <<"n", ".", "m", "d">>, <<"r">>}

RECURSIVE DirPaths(_)
DirPaths(n) ==
    IF n = 0 THEN {<<>>}
    ELSE DirPaths(n - 1)
           \cup {d \o <<x>> : d \in {e \in DirPaths(n - 1) : Len(e) = n - 1},
                              x \in DirNames}

NoFiles == [n \in {} |-> <<>>]

InitLoader ==
    /\ block_items = NoFiles
    /\ debug = FALSE
    /\ debug_assertions = FALSE
    /\ indent_level = 0
    /\ current_file = <<>>
    /\ current_loop_value = <<>>
    /\ generated_styles = NoFiles
    /\ pc = "input"
    /\ arg = <<>>
    /\ result = NoResult
    /\ calls = 0
    /\ files = NoFiles
    /\ safe = FALSE
    /\ pending = {}
    /\ tree = {}

(* The body of the file at dir/name: a text block that holds its own path, *)
(* so that no two files of the directory parse to the same item.           *)
BodyOf(d, n) == Text(PathToStr(d \o <<"/">>) \o n)

AddFile(d, n, p) ==
    /\ pc = "input"
    /\ calls < MaxFiles
    /\ \A f \in tree : ~(f.dir = d /\ f.name = n)
    /\ tree' = tree \cup {File(d, n, p, BodyOf(d, n))}
    /\ calls' = calls + 1
    /\ UNCHANGED <<builderVars, pc, arg, result, files, safe, pending>>

(* BlockBuilder::new: get_block_definitions(input_dir, input_dir).unwrap()  *)
BlockBuilderNew ==
    /\ pc = "input"
    /\ LET r == get_block_definitions(<<>>)
       IN  IF r.ok
           THEN /\ pc' = "loaded"
                /\ block_items' = r.map
                /\ result' = Ok(<<>>)
           ELSE /\ pc' = "panicked"
                /\ block_items' = block_items
                /\ \E e \in r.errs : result' = Err(e)
    /\ UNCHANGED <<debug, debug_assertions, indent_level, current_file,
                   current_loop_value, generated_styles, arg, calls, files,
                   safe, pending, tree>>

NextLoader ==
    \/ \E d \in DirPaths(MaxDepth), n \in FileNames, p \in BOOLEAN :
          AddFile(d, n, p)
    \/ BlockBuilderNew

SpecLoader == InitLoader /\ [][NextLoader]_vars

----------------------------------------------------------------------------
(* The specification of process_special_values on its own: a builder whose  *)
(* loop value is one of SubstLoopValues is handed a text assembled from     *)
(* Pieces, at most MaxPieces of them.                                       *)

MaxPieces == 3

Pieces == {LoopValueVar, LoopValueFilenameVar, <<Backslash>>, <<" ">>,
           <<"!">>, <<"f", "o", "o">>}

(* "" (the value a fresh builder holds), "a.b", "..", "c"                   *)
SubstLoopValues == {<<>>, <<"a", ".", "b">>, <<".", ".">>, <<"c">>}

InitSubst ==
    /\ block_items = NoFiles
    /\ debug = FALSE
    /\ debug_assertions = FALSE
    /\ indent_level = 0
    /\ current_file = <<>>
    /\ current_loop_value \in SubstLoopValues
    /\ generated_styles = NoFiles
    /\ pc = "input"
    /\ arg = <<>>
    /\ result = NoResult
    /\ calls = 0
    /\ files = NoFiles
    /\ safe = FALSE
    /\ pending = {}
    /\ tree = {}

AppendPiece(p) ==
    /\ pc = "input"
    /\ calls < MaxPieces
    /\ arg' = arg \o p
    /\ calls' = calls + 1
    /\ UNCHANGED <<builderVars, pc, result, files, safe, pending, tree>>

ProcessSpecialValues ==
    /\ pc = "input"
    /\ pc' = "done"
    /\ result' = Ok(process_special_values(Self, arg))
    /\ UNCHANGED <<builderVars, arg, calls, files, safe, pending, tree>>

NextSubst ==
    \/ \E p \in Pieces : AppendPiece(p)
    \/ ProcessSpecialValues

SpecSubst == InitSubst /\ [][NextSubst]_vars

----------------------------------------------------------------------------
(* generate(): the generation run.  build_asset_files has staged the input  *)
(* directory's markdown files and BlockBuilder::new has loaded its          *)
(* definitions; the run then builds one page per block, in the order in     *)
(* which the map hands out its keys, and writes the generated styles.       *)

DotHtml == <<".", "h", "t", "m", "l">>

StyleFile == <<"generated_style.css">>

DotMd == <<".", "m", "d">>

(* build_asset_files on an empty output directory: generate_html_from_md    *)
(* for every file of the input directory whose name ends with ".md"; the    *)
(* output name is file_name.replace(".md", ".html").                        *)
StagedFiles(t) ==
    LET mds == {f \in t : /\ f.dir = <<>>
                           /\ Len(f.name) >= Len(DotMd)
                           /\ StartsWithAt(f.name, Len(f.name) - 2, DotMd)}
    IN  [n \in {StrReplace(f.name, DotMd, DotHtml) : f \in mds}
           |-> markdown(<<"md">>)]

(* One iteration of the loop over block_items.                              *)
BuildBlock(block_name) ==
    /\ pc = "loop"
    /\ block_name \in pending
    /\ LET block_file == block_name \o DotHtml
       IN  IF block_file \in DOMAIN files /\ safe
           THEN /\ pending' = pending \ {block_name}
                /\ result' = NoResult
                /\ UNCHANGED <<indent_level, current_file, current_loop_value,
                               generated_styles, pc, files>>
           ELSE \E r \in {construct_by_name(Self, block_name)} :
                LET created == Insert(files, block_file, <<>>)
                IN  /\ indent_level' = r.self.indent_level
                    /\ current_file' = r.self.current_file
                    /\ current_loop_value' = r.self.current_loop_value
                    /\ generated_styles' = r.self.generated_styles
                    /\ result' = [ok |-> r.ok, err |-> r.err, out |-> r.out]
                    /\ IF r.ok
                       THEN /\ files' = Insert(files, block_file, r.out)
                            /\ pending' = pending \ {block_name}
                            /\ pc' = pc
                       ELSE /\ files' = created
                            /\ pending' = pending
                            /\ pc' = "failed"
    /\ arg' = block_name
    /\ calls' = calls + 1
    /\ UNCHANGED <<block_items, debug, debug_assertions, safe, tree>>

(* After the loop: generated_style.css.                                     *)
WriteGeneratedStyles ==
    /\ pc = "loop"
    /\ pending = {}
    /\ pc' = "done"
    /\ files' = IF safe /\ StyleFile \in DOMAIN files THEN files
                ELSE Insert(files, StyleFile, get_generated_styles(Self))
    /\ UNCHANGED <<builderVars, arg, result, calls, safe, pending, tree>>

----------------------------------------------------------------------------
(* The input directories of the generation runs checked: two definition     *)
(* files, p.yml and q.yml, and markdown files beside them.                  *)

MaxItems == 2

Red == [r |-> 255, g |-> 0, b |-> 0]

Blue == [r |-> 0, g |-> 0, b |-> 255]

P == <<"p">>

Q == <<"q">>

Missing == <<"z">>

LinkA == Link(<<"t">>, <<"u">>, Explicit(FALSE, Red, None, None))

LinkB ==
    Link(<<"t">>, <<"u">>,
         Explicit(FALSE, Red, Some(Blue),
                  Some([normal |-> Blue, hover |-> None])))

LinkC == Link(<<"t">>, <<"u">>, Explicit(TRUE, Blue, Some(Red), None))

LinkS == Link(<<"t">>, <<"u">>, Style(<<"s">>))

AHead ==
    [title |-> Some(<<"t">>), icon |-> Some(<<"i">>),
     styles |-> Some(<<StyleFile, <<"s">>>>), scripts |-> Some(<<<<"j">>>>)]

(* Items that occur any number of times among a container's children ...   *)
CommonItems ==
    {LoopValue, Text(LoopValueVar \o <<"!">>), Include(Q), LinkA}

(* ... and items that occur as a container's only child.                    *)
SingleItems ==
    {LoopValueFileName, Include(Missing), IncludeVerbose(Q, None),
     IncludeVerbose(Missing, Some(<<<<"x">>>>)),
     Title(LoopValueVar), Markdown(<<"m">>), Code(<<"c">>),
     Image(<<"i">>, None), Image(<<"i">>, Some(<<"a">>)), Br, LinkB, LinkC,
     LinkS, Text(LoopValueFilenameVar), Include(LoopValueVar),
     Html(None, None), Block(None, None, <<LoopValue>>),
     ForEach(Some(<<<<"c">>>>), None, <<LoopValue>>)}

RECURSIVE SeqsUpTo(_, _)
SeqsUpTo(S, n) ==
    IF n = 0 THEN {<<>>}
    ELSE SeqsUpTo(S, n - 1)
           \cup {s \o <<x>> : s \in {t \in SeqsUpTo(S, n - 1) : Len(t) = n - 1},
                               x \in S}

(* A loop followed by an item that reads the loop value.                    *)
AfterLoop == <<ForEach(Some(<<<<"c">>>>), None, <<LoopValue>>), LoopValue>>

ChildSeqs ==
    SeqsUpTo(CommonItems, MaxItems) \cup {<<x>> : x \in SingleItems}
      \cup {AfterLoop}

(* "a" and "b"                                                              *)
TwoValues == <<<<"a">>, <<"b">>>>

StarMd == <<"*", ".", "m", "d">>

PageItems ==
    {Block(None, None, cs) : cs \in ChildSeqs}
      \cup {ForEach(Some(TwoValues), None, cs) : cs \in ChildSeqs}
      \cup {ForEach(None, Some(StarMd), cs) : cs \in ChildSeqs}
      \cup {ForEach(Some(TwoValues), Some(StarMd), cs) : cs \in ChildSeqs}
      \cup {ForEach(None, None, cs) : cs \in ChildSeqs}
      \cup {Html(None, Some(cs)) : cs \in ChildSeqs}
      \cup {Html(Some(AHead), None), Html(None, None),
            Block(Some(<<"s">>), Some(<<"section">>), <<LoopValue>>)}

PartItems ==
    {Text(LoopValueVar), Block(None, None, <<LinkB>>), Html(None, None),
     ForEach(Some(<<<<"a", ".", "b">>>>), None, <<LoopValue>>), Include(P)}

(* "q.md" and "n.o.md"                                                      *)
MdFiles ==
    {File(<<>>, <<"q", ".", "m", "d">>, TRUE, Br),
     File(<<>>, <<"n", ".", "o", ".", "m", "d">>, TRUE, Br)}

InputDirs ==
    {{File(<<>>, <<"p", ".", "y", "m", "l">>, TRUE, x),
      File(<<>>, <<"q", ".", "y", "m", "l">>, TRUE, y)} \cup MdFiles :
        x \in PageItems, y \in PartItems}

Init ==
    /\ tree \in InputDirs
    /\ safe \in BOOLEAN
    /\ debug \in BOOLEAN
    /\ debug_assertions \in BOOLEAN
    /\ block_items = get_block_definitions(<<>>).map
    /\ files = StagedFiles(tree)
    /\ indent_level = 0
    /\ current_file = <<>>
    /\ current_loop_value = <<>>
    /\ generated_styles = <<>>
    /\ pending = DOMAIN block_items
    /\ pc = "loop"
    /\ arg = <<>>
    /\ result = NoResult
    /\ calls = 0

Next ==
    \/ \E n \in DOMAIN block_items : BuildBlock(n)
    \/ WriteGeneratedStyles

Spec == Init /\ [][Next]_vars

----------------------------------------------------------------------------
(* Vocabulary of the claims about substitution.                             *)

(* The positions at which tok occurs in s.                                  *)
OccurrencesOf(s, tok) == {i \in 1..Len(s) : StartsWithAt(s, i, tok)}

(* The matching rule, read on the text itself: the occurrence of tok at i   *)
(* is preceded by the start of the string or a character other than a       *)
(* backslash, and followed by the end of the string or a non-word character.*)
RuleHoldsAt(s, i, tok) ==
    /\ (i = 1 \/ s[i - 1] # Backslash)
    /\ (i + Len(tok) > Len(s) \/ ~IsWord(s[i + Len(tok)]))

(* s without the character c.                                               *)
Without(s, c) == SelectSeq(s, LAMBDA x : x # c)

(* How often the character c occurs in s.                                   *)
CountChar(s, c) == Len(s) - Len(Without(s, c))

(* Every occurrence of tok that satisfies the matching rule replaced by     *)
(* val, every backslash-escaped occurrence made literal, all else copied.   *)
RECURSIVE RefSubstFrom(_, _, _, _)
RefSubstFrom(s, i, tok, val) ==
    IF i > Len(s) THEN <<>>
    ELSE IF s[i] = Backslash /\ StartsWithAt(s, i + 1, tok)
    THEN tok \o RefSubstFrom(s, i + 1 + Len(tok), tok, val)
    ELSE IF StartsWithAt(s, i, tok) /\ RuleHoldsAt(s, i, tok)
    THEN val \o RefSubstFrom(s, i + Len(tok), tok, val)
    ELSE <<s[i]>> \o RefSubstFrom(s, i + 1, tok, val)

RefProcess(s, stem, val) ==
    RefSubstFrom(RefSubstFrom(s, 1, LoopValueFilenameVar, stem), 1,
                 LoopValueVar, val)

(* No occurrence of either placeholder in s satisfies the matching rule.    *)
NoneEligible(s) ==
    /\ \A i \in OccurrencesOf(s, LoopValueVar) :
            ~RuleHoldsAt(s, i, LoopValueVar)
    /\ \A i \in OccurrencesOf(s, LoopValueFilenameVar) :
            ~RuleHoldsAt(s, i, LoopValueFilenameVar)

(* No occurrence of a placeholder in s is preceded by a backslash.          *)
NoneEscaped(s) ==
    \A i \in OccurrencesOf(s, LoopValueVar) : i = 1 \/ s[i - 1] # Backslash

(* s holds placeholders and each of them is preceded by a backslash.        *)
AllEscaped(s) ==
    /\ OccurrencesOf(s, LoopValueVar) # {}
    /\ \A i \in OccurrencesOf(s, LoopValueVar) : i > 1 /\ s[i - 1] = Backslash

(* s with the n characters from position i on replaced by val.              *)
Spliced(s, i, n, val) ==
    Slice(s, 1, i - 1) \o val \o Slice(s, i + n, Len(s))

----------------------------------------------------------------------------
(* Vocabulary of the claims about a generation run.  `arg` is the block of  *)
(* the last iteration of the loop and `result` what its render returned,    *)
(* NoResult when the iteration skipped the block.                           *)

Rendered(name) == arg = name /\ result # NoResult

(* n indent units, written out.                                             *)
Ind(n) == [i \in 1..n |-> "    "]

Pseudo == {":link", ":visited", ":hover", ":active"}

(* The Explicit link styles of the input directories.                       *)
ExplicitStyles == {LinkA.link_style[1], LinkB.link_style[1],
                   LinkC.link_style[1]}

(* What link() stores for one style in a builder that has stored nothing.   *)
StylesOf(ls) ==
    link([Self EXCEPT !.generated_styles = <<>>], <<>>, <<>>, ls)
        .self.generated_styles

(* The renders of items, each from the state self.                          *)
RECURSIVE RendersOf(_, _)
RendersOf(self, items) ==
    IF items = <<>> THEN <<>>
    ELSE construct_block(self, Head(items)).out \o RendersOf(self, Tail(items))

(* The renders of items with current_loop_value bound to each of values,    *)
(* in values order and then item order.                                     *)
RECURSIVE RendersPerValue(_, _, _)
RendersPerValue(self, values, items) ==
    IF values = <<>> THEN <<>>
    ELSE RendersOf([self EXCEPT !.current_loop_value = Head(values)], items)
           \o RendersPerValue(self, Tail(values), items)

(* The values a ForEach item iterates over.                                 *)
BoundValues(item) ==
    IF item.values # None THEN item.values[1]
    ELSE IF item.pattern # None THEN Glob(item.pattern[1])
    ELSE <<>>

(* The lines html() writes for Html{head: None, body: None} when called at  *)
(* indent_level n.                                                          *)
Skeleton(n) ==
    <<"<!DOCTYPE html>", "\n", "<html>", "\n">>
      \o Ind(n + 1) \o <<"<head>", "\n">>
      \o Ind(n + 2) \o <<"<meta charset=\"utf-8\">", "\n">>
      \o Ind(n + 1) \o <<"</head>", "\n">>
      \o Ind(n + 1) \o <<"<body>", "\n">>
      \o Ind(n + 1) \o <<"</body>", "\n">>
      \o <<"</html>", "\n">>

----------------------------------------------------------------------------
(* C1: two Explicit links with the same (color.normal, underline) get the   *)
(* same class name, and the four declaration sets stored in                 *)
(* generated_styles for that class are the same whichever of the links      *)
(* was rendered, however often and in whatever order.                       *)
(* (Violated: the sets are computed from hover and visited_color too, and   *)
(* the class holds those of the link rendered last.)                        *)
C1_SameStylesPerClass ==
    \A l1, l2 \in ExplicitStyles :
        (l1.color.normal = l2.color.normal /\ l1.underline = l2.underline) =>
            /\ LinkClass(l1) = LinkClass(l2)
            /\ \A p \in Pseudo :
                  LET k == LinkClass(l1) \o <<p>>
                  IN  k \in DOMAIN generated_styles =>
                         /\ generated_styles[k] = StylesOf(l1)[k]
                         /\ generated_styles[k] = StylesOf(l2)[k]

(* C2: the render of a ForEach item is exactly the concatenation, in values *)
(* order and then child order, of the renders of its children with          *)
(* current_loop_value bound to each value: values ["a","b"] with body       *)
(* [LoopValue] render "a\nb\n", and a ForEach with neither values nor       *)
(* pattern emits nothing.                                                   *)
(* (Violated: construct_block pushes a newline after the arm, so the two    *)
(* renders are "a\nb\n\n" and "\n".)                                        *)
C2_ForEachRender ==
    (Rendered(P) /\ result.ok /\ block_items[P].type = "ForEach") =>
        /\ result.out = RendersPerValue(Self, BoundValues(block_items[P]),
                                        block_items[P].items)
        /\ block_items[P] = ForEach(Some(TwoValues), None, <<LoopValue>>) =>
              result.out = <<"a", "\n", "b", "\n">>
        /\ (block_items[P].values = None /\ block_items[P].pattern = None) =>
              result.out = <<>>

(* C3: the render of a ForEach with both values and pattern set fails with  *)
(* InvalidInput before any iteration: nothing is rendered, there is no      *)
(* output, and current_loop_value, current_file, indent_level and           *)
(* generated_styles are what they were before the call.                     *)
C3_BothModesFailFirst ==
    [][(/\ calls' = calls + 1
        /\ arg' = P
        /\ result' # NoResult
        /\ block_items[P].type = "ForEach"
        /\ block_items[P].values # None
        /\ block_items[P].pattern # None)
       => /\ ~result'.ok
          /\ result'.err = "InvalidInput"
          /\ result'.out = <<>>
          /\ files'[P \o DotHtml] = <<>>
          /\ UNCHANGED <<current_loop_value, current_file, indent_level,
                         generated_styles>>]_vars

(* A ForEach with both modes set has failed in a builder that had stored    *)
(* link styles before.                                                      *)
C3_Witness ==
    /\ Rendered(P)
    /\ block_items[P] = ForEach(Some(TwoValues), Some(StarMd), <<LinkC>>)
    /\ result.err = "InvalidInput"
    /\ generated_styles # <<>>
    /\ LinkClass(LinkC.link_style[1]) \o <<":link">>
         \notin DOMAIN generated_styles

(* C4: when a generation run renders a Block whose only child is Include    *)
(* of a name absent from the namespace, the render fails with NotFound and  *)
(* there is no output file for the block after the run.                     *)
(* (Violated: generate creates the file before it renders the block, and    *)
(* the empty file stays.)                                                   *)
C4_NoFileAfterMissingInclude ==
    (Rendered(P) /\ block_items[P] = Block(None, None, <<Include(Missing)>>))
        => /\ ~result.ok
           /\ result.err = "NotFound"
           /\ pc = "failed"
           /\ (P \o DotHtml) \notin DOMAIN files

----------------------------------------------------------------------------
(* C5: a definition file at d1/d2/.../dn/name.yml under the input root is   *)
(* registered under exactly the key "d1/d2/.../dn/name", each directory     *)
(* name once, and under no other key, for every depth n >= 0.               *)
(* (Violated from depth 2 on: the prefix of each level is the path from the *)
(* root, so a/b/x.yml is registered as "a/a/b/x".)                          *)
C5_KeyIsRelativePath ==
    pc = "loaded" =>
        \A f \in tree :
            Extension(f.name) = Some(<<"y", "m", "l">>) =>
                {k \in DOMAIN block_items : block_items[k] = f.item}
                  = {(IF f.dir = <<>> THEN <<>>
                      ELSE PathToStr(f.dir) \o <<"/">>)
                       \o Slice(f.name, 1, Len(f.name) - 4)}

----------------------------------------------------------------------------
(* C6: substitution is replace-all: in the result of                        *)
(* process_special_values every occurrence of $loop_value and of            *)
(* $loop_value_filename that satisfies the matching rule has been replaced, *)
(* however many there are and however closely they follow one another.      *)
(* (Violated: two placeholders one character apart, or adjacent, share      *)
(* the character the pattern consumes, and the second one is left.)         *)
C6_ReplaceAll ==
    pc = "done" =>
        result.out = RefProcess(arg, loop_value_filename(Self),
                                current_loop_value)

(* C7: a placeholder is substituted only when it is preceded by the start   *)
(* of the string or a non-backslash character and followed by the end of    *)
(* the string or a non-word character.  "$loop_valuefoo" is returned        *)
(* unchanged; in "$loop_value!" the placeholder is replaced by the current  *)
(* loop value and the surrounding characters are kept.                      *)
C7_MatchingRule ==
    pc = "done" =>
        /\ NoneEligible(arg) =>
              /\ Without(result.out, Backslash) = Without(arg, Backslash)
              /\ NoneEscaped(arg) => result.out = arg
        /\ arg = LoopValueVar \o <<"f", "o", "o">> => result.out = arg
        /\ arg = LoopValueVar \o <<"!">> =>
              result.out = current_loop_value \o <<"!">>
        /\ \A i \in 1..Len(arg) :
              (OccurrencesOf(arg, LoopValueVar) = {i}
                 /\ RuleHoldsAt(arg, i, LoopValueVar))
              => result.out = Spliced(arg, i, Len(LoopValueVar),
                                      current_loop_value)

C7_Witness ==
    /\ pc = "done"
    /\ arg = <<"!">> \o LoopValueVar \o <<"!">>
    /\ current_loop_value = <<"a", ".", "b">>
    /\ result.out = <<"!", "a", ".", "b", "!">>

(* C8: for every current loop value, a string containing no placeholder is  *)
(* returned unchanged, and a backslash-escaped placeholder becomes the      *)
(* literal placeholder text, its backslash stripped, without being          *)
(* substituted: "\$loop_value" yields "$loop_value".                        *)
C8_EscapeAndIdentity ==
    pc = "done" =>
        /\ OccurrencesOf(arg, LoopValueVar) = {} => result.out = arg
        /\ arg = <<Backslash>> \o LoopValueVar => result.out = LoopValueVar
        /\ arg = <<Backslash>> \o LoopValueFilenameVar =>
              result.out = LoopValueFilenameVar
        /\ AllEscaped(arg) =>
              /\ Without(result.out, Backslash) = Without(arg, Backslash)
              /\ CountChar(result.out, Backslash) <=
                    CountChar(arg, Backslash)
                      - Cardinality(OccurrencesOf(arg, LoopValueVar))

C8_Witness ==
    /\ pc = "done"
    /\ arg = <<Backslash>> \o LoopValueVar
    /\ current_loop_value = <<"c">>
    /\ result.out = LoopValueVar

----------------------------------------------------------------------------
(* How many indent units the text s starts with.                            *)
RECURSIVE LeadingIndent(_)
LeadingIndent(s) ==
    IF s # <<>> /\ Head(s) = "    " THEN 1 + LeadingIndent(Tail(s)) ELSE 0

(* The render of the k-th child of a Block that stands at indent_level n.   *)
ChildRender(items, k, n) ==
    construct_block([Self EXCEPT !.indent_level = n + 1], items[k])

(* C11: a Block with html_type None opens with <div> and closes with        *)
(* </div>, both at the block's own indent, and the first output line of     *)
(* every child, of whatever variant, is indented by exactly one indent      *)
(* unit more than the opening tag line.                                     *)
(* (Violated: the IncludeVerbose arm pushes the indent and the included     *)
(* item pushes it again; html() does not indent its first line.)            *)
C11_ChildrenOneUnitDeeper ==
    (Rendered(P) /\ result.ok /\ block_items[P].type = "Block"
       /\ block_items[P].html_type = None /\ block_items[P].style = None) =>
        /\ SubSeq(result.out, 1, 4) = <<"<", "div", ">", "\n">>
        /\ SubSeq(result.out, Len(result.out) - 3, Len(result.out))
             = <<"</", "div", ">", "\n">>
        /\ block_items[P].items # <<>> =>
              LeadingIndent(SubSeq(result.out, 5, Len(result.out))) = 1
        /\ \A k \in 1..Len(block_items[P].items) :
              ChildRender(block_items[P].items, k, 0).ok =>
                 LeadingIndent(ChildRender(block_items[P].items, k, 0).out)
                    = 1

----------------------------------------------------------------------------
(* The builder as BlockBuilder::new leaves it, inside the first             *)
(* construct_by_name of a run.                                              *)
FreshSelf ==
    [indent_level |-> 0, current_file |-> <<>>, current_loop_value |-> <<>>,
     generated_styles |-> <<>>, debug_assertions |-> debug_assertions,
     stack |-> 1]

(* The item with every IncludeVerbose child replaced by the Include of the  *)
(* same path.                                                               *)
AsInclude(item) ==
    [item EXCEPT !.items =
        [k \in 1..Len(item.items) |->
            IF item.items[k].type = "IncludeVerbose"
            THEN Include(item.items[k].text) ELSE item.items[k]]]

(* C12: rendering IncludeVerbose{path, params} gives what rendering         *)
(* Include(path) gives from the same state: the same text, the same error   *)
(* when the name is absent, the same resulting state.                       *)
(* (Violated: the IncludeVerbose arm pushes get_indent() before the         *)
(* included text, the Include arm does not; the texts differ wherever       *)
(* indent_level is not zero.)                                               *)
C12_VerboseSameAsInclude ==
    (Rendered(P) /\ calls = 1 /\ block_items[P].type = "Block"
       /\ \E k \in 1..Len(block_items[P].items) :
             block_items[P].items[k].type = "IncludeVerbose") =>
        LET r == construct_block(FreshSelf, AsInclude(block_items[P]))
        IN  /\ result.ok = r.ok
            /\ result.err = r.err
            /\ result.out = r.out
            /\ indent_level = r.self.indent_level
            /\ current_file = r.self.current_file
            /\ current_loop_value = r.self.current_loop_value
            /\ generated_styles = r.self.generated_styles

----------------------------------------------------------------------------
(* The specification of LoopValueFileName on its own: a loop value is put   *)
(* together character by character, starting from the empty value or from   *)
(* "photo.final.jpg" and adding at most MaxChars characters, and a          *)
(* LoopValueFileName item is rendered with it.                              *)

MaxChars == 5

PathChars == {"a", "b", ".", "/"}

(* "photo.final.jpg"                                                        *)
Photo == <<"p", "h", "o", "t", "o", ".", "f", "i", "n", "a", "l", ".",
           "j", "p", "g">>

InitStem ==
    /\ block_items = NoFiles
    /\ debug = FALSE
    /\ debug_assertions = FALSE
    /\ indent_level = 0
    /\ current_file = <<>>
    /\ current_loop_value \in {<<>>, Photo}
    /\ generated_styles = NoFiles
    /\ pc = "input"
    /\ arg = <<>>
    /\ result = NoResult
    /\ calls = 0
    /\ files = NoFiles
    /\ safe = FALSE
    /\ pending = {}
    /\ tree = {}

AppendChar(c) ==
    /\ pc = "input"
    /\ calls < MaxChars
    /\ current_loop_value' = current_loop_value \o <<c>>
    /\ calls' = calls + 1
    /\ UNCHANGED <<block_items, debug, debug_assertions, indent_level,
                   current_file, generated_styles, pc, arg, result, files,
                   safe, pending, tree>>

RenderLoopValueFileName ==
    /\ pc = "input"
    /\ pc' = "done"
    /\ \E r \in {construct_block(Self, LoopValueFileName)} :
          result' = [ok |-> r.ok, err |-> r.err, out |-> r.out]
    /\ UNCHANGED <<builderVars, arg, calls, files, safe, pending, tree>>

NextStem ==
    \/ \E c \in PathChars : AppendChar(c)
    \/ RenderLoopValueFileName

SpecStem == InitStem /\ [][NextStem]_vars

(* The text of v before its last '.', all of v when it has none or only a   *)
(* leading one.                                                             *)
BeforeLastDot(v) ==
    IF LastDot(v) <= 1 THEN v ELSE Slice(v, 1, LastDot(v) - 1)

(* v is a plain file name: no '/', and not "", "." or "..".                 *)
PlainName(v) ==
    /\ \A i \in 1..Len(v) : v[i] # "/"
    /\ v \notin {<<>>, <<".">>, <<".", ".">>}

(* C13 as claimed: LoopValueFileName emits the text of the current loop     *)
(* value before its last extension separator, for every loop value, and     *)
(* the empty string for a loop value without stem.                          *)
C13_TextBeforeLastSeparator ==
    pc = "done" =>
        /\ result.ok
        /\ result.out =
              (IF current_loop_value \in {<<>>, <<".">>, <<".", ".">>, <<"/">>}
               THEN <<>> ELSE BeforeLastDot(current_loop_value))
                \o <<"\n">>

(* C13 as amended: LoopValueFileName emits the file stem of the current     *)
(* loop value read as a path: of its last path component, the text before   *)
(* the last '.', or the whole component when it has no '.' or only a        *)
(* leading one.  "photo.final.jpg" yields "photo.final"; directories        *)
(* before the last component are dropped; a loop value without a last       *)
(* component ("", ".", "..", "/") yields the empty string.                   *)
C13_StemOfLastComponent ==
    pc = "done" =>
        /\ result.ok
        /\ current_loop_value = Photo =>
              result.out = <<"p", "h", "o", "t", "o", ".", "f", "i", "n", "a",
                             "l", "\n">>
        /\ PlainName(current_loop_value) =>
              result.out = BeforeLastDot(current_loop_value) \o <<"\n">>
        /\ current_loop_value \in {<<>>, <<".">>, <<".", ".">>, <<"/">>,
                                   <<"a", "/", ".", ".">>} =>
              result.out = <<"\n">>
        /\ \A i \in 1..Len(current_loop_value) :
              (current_loop_value[i] = "/"
                 /\ PlainName(Slice(current_loop_value, i + 1,
                                    Len(current_loop_value))))
              => result.out =
                    BeforeLastDot(Slice(current_loop_value, i + 1,
                                        Len(current_loop_value)))
                      \o <<"\n">>

C13_Witness ==
    /\ pc = "done"
    /\ current_loop_value = Photo \o <<".", "a">>
    /\ result.out = Photo \o <<"\n">>

----------------------------------------------------------------------------
(* C14: indent_level after a render call equals indent_level before it on   *)
(* every exit path, also when a child of a Block or of an Html body fails   *)
(* and the error propagates out.  A builder starts at indent_level 0, so    *)
(* it is 0 again after every render of a page that returned.                *)
(* (Violated: block() and html() leave through `?` between their            *)
(* increment and their decrement.)                                          *)
C14_IndentRestoredOnEveryExit ==
    (result # NoResult /\ result.err \notin {"Panic", "StackOverflow"}) =>
        indent_level = 0

----------------------------------------------------------------------------
(* C15: the assertion at the end of html() never fails: at whatever depth   *)
(* an Html item is rendered, indent_level is back at its starting depth     *)
(* when html() returns and that depth is the asserted 0.                    *)
(* (Violated: inside a Block html() starts and ends at the Block's depth    *)
(* plus one, and debug_assert_eq!(self.indent_level, 0) panics in a build   *)
(* with debug assertions.)                                                  *)
C15_AssertionNeverFails ==
    Rendered(arg) => result.err # "Panic"

----------------------------------------------------------------------------
(* C16: Include rebinds current_file for the duration of the nested render  *)
(* only: when the Include returns, on whatever exit path, current_file is   *)
(* what it was before.  A fresh builder holds the empty current_file, so    *)
(* it is empty again after the first page when that page is an Include.     *)
(* (Violated: the `?` on the nested construct_by_name returns before        *)
(* `self.current_file = old_file`.)                                         *)
C16_CurrentFileRestoredOnEveryExit ==
    (Rendered(Q) /\ calls = 1 /\ block_items[Q].type = "Include"
       /\ result.err \notin {"Panic", "StackOverflow"}) =>
        current_file = <<>>

----------------------------------------------------------------------------
(* The items of a list that bind no loop value and render no other block.   *)
Leaves(items) ==
    \A k \in 1..Len(items) :
        items[k].type \notin {"ForEach", "Include", "IncludeVerbose", "Block",
                              "Html"}

(* What the inner loop of AfterLoop and the LoopValue after it emit at      *)
(* indent_level n: "c", an empty line, "c".                                 *)
AfterLoopLines(n) ==
    Ind(n) \o <<"c", "\n", "\n">> \o Ind(n) \o <<"c", "\n">>

(* C17: after a ForEach completes, current_loop_value holds the value the   *)
(* last iteration of any loop bound and is not put back: items after the    *)
(* loop, and items after a nested ForEach in an outer body, read that       *)
(* value; a ForEach of zero iterations leaves current_loop_value as it was. *)
C17_LoopValueKeptAfterLoop ==
    (Rendered(P) /\ result.ok) =>
        /\ block_items[P] = Block(None, None, AfterLoop) =>
              /\ result.out = <<"<", "div", ">", "\n">> \o AfterLoopLines(1)
                                \o <<"</", "div", ">", "\n">>
              /\ current_loop_value = <<"c">>
        /\ block_items[P] = ForEach(Some(TwoValues), None, AfterLoop) =>
              /\ result.out = AfterLoopLines(0) \o AfterLoopLines(0)
                                \o <<"\n">>
              /\ current_loop_value = <<"c">>
        /\ (block_items[P].type = "ForEach" /\ Leaves(block_items[P].items)
              /\ BoundValues(block_items[P]) # <<>>) =>
              current_loop_value =
                  BoundValues(block_items[P])[Len(BoundValues(block_items[P]))]
        /\ (block_items[P].type = "ForEach"
              /\ BoundValues(block_items[P]) = <<>>) =>
              /\ calls = 1 => current_loop_value = <<>>
              /\ (calls = 2 /\ ~safe
                    /\ block_items[Q]
                         = ForEach(Some(<<<<"a", ".", "b">>>>), None,
                                   <<LoopValue>>)) =>
                    current_loop_value = <<"a", ".", "b">>

(* An outer loop over "a" and "b" whose body holds a loop over "c" has      *)
(* completed and left "c".                                                  *)
C17_Witness ==
    /\ Rendered(P)
    /\ result.ok
    /\ block_items[P] = ForEach(Some(TwoValues), None, AfterLoop)
    /\ current_loop_value = <<"c">>

----------------------------------------------------------------------------
(* The classes that have an entry in generated_styles: a key is the class   *)
(* followed by one pseudo-class.                                            *)
GeneratedClasses ==
    {SubSeq(k, 1, Len(k) - 1) : k \in DOMAIN generated_styles}

Underline == <<"underline">>

(* The four entries of class c are those link() derives from the style ls.  *)
EntriesFrom(c, ls) ==
    LET link_e == generated_styles[c \o <<":link">>]
        visited_e == generated_styles[c \o <<":visited">>]
        hover_e == generated_styles[c \o <<":hover">>]
    IN  /\ c = LinkClass(ls)
        /\ link_e["color"] = ColorToString(ls.color.normal)
        /\ ("text-decoration" \in DOMAIN link_e) = ls.underline
        /\ ls.underline => link_e["text-decoration"] = Underline
        /\ DOMAIN hover_e = {"color", "text-decoration"}
        /\ hover_e["text-decoration"] = Underline
        /\ hover_e["color"] = (IF ls.color.hover # None
                               THEN ColorToString(ls.color.hover[1])
                               ELSE ColorToString(ls.color.normal))
        /\ DOMAIN visited_e = DOMAIN link_e
        /\ \A prop \in DOMAIN link_e \ {"color"} :
              visited_e[prop] = link_e[prop]
        /\ visited_e["color"] = (IF ls.visited_color # None
                                 THEN ColorToString(ls.visited_color[1].normal)
                                 ELSE link_e["color"])

(* C18: in every reachable state, each generated class has all four         *)
(* entries :link, :visited, :hover and :active; :active equals :hover;      *)
(* :hover has text-decoration underline and the hover color, or the normal  *)
(* color when hover is absent; :link has text-decoration underline iff the  *)
(* link's underline flag is set; :visited equals :link except that its      *)
(* color is visited_color.normal when visited_color is present.             *)
C18_FourConsistentEntries ==
    \A c \in GeneratedClasses :
        /\ \A p \in Pseudo : c \o <<p>> \in DOMAIN generated_styles
        /\ generated_styles[c \o <<":active">>]
             = generated_styles[c \o <<":hover">>]
        /\ \E ls \in ExplicitStyles : EntriesFrom(c, ls)

(* Two classes are stored, one of them by a link with a hover color and a   *)
(* visited color.                                                           *)
C18_Witness ==
    /\ Cardinality(GeneratedClasses) = 2
    /\ LinkClass(LinkB.link_style[1]) \in GeneratedClasses
    /\ generated_styles[LinkClass(LinkB.link_style[1]) \o <<":visited">>]
          ["color"] = ColorToString(Blue)

----------------------------------------------------------------------------
(* The children of an item: a Block's or a ForEach's items, an Html's body. *)
ChildrenOf(item) ==
    IF item.type \in {"Block", "ForEach"} THEN item.items
    ELSE IF item.type = "Html" /\ item.body # None THEN item.body[1]
    ELSE <<>>

(* The block names an item names in an Include or IncludeVerbose, anywhere  *)
(* in it ...                                                                *)
RECURSIVE Includes(_)
Includes(item) ==
    (IF item.type \in {"Include", "IncludeVerbose"} THEN {item.text} ELSE {})
      \cup UNION {Includes(ChildrenOf(item)[k]) :
                    k \in 1..Len(ChildrenOf(item))}

(* ... and those among them that lie in no ForEach whose body is never      *)
(* rendered: one with both modes set, or with nothing to iterate over.      *)
RECURSIVE RenderedIncludes(_)
RenderedIncludes(item) ==
    IF item.type = "ForEach"
         /\ ((item.values # None /\ item.pattern # None)
               \/ BoundValues(item) = <<>>)
    THEN {}
    ELSE (IF item.type \in {"Include", "IncludeVerbose"} THEN {item.text}
          ELSE {})
           \cup UNION {RenderedIncludes(ChildrenOf(item)[k]) :
                         k \in 1..Len(ChildrenOf(item))}

(* The blocks reached from the blocks of S in at most n steps of Refs.      *)
RECURSIVE Reach(_, _, _)
Reach(Refs(_), S, n) ==
    IF n = 0 THEN S
    ELSE Reach(Refs,
               S \cup UNION {Refs(block_items[b]) \cap DOMAIN block_items :
                               b \in S},
               n - 1)

(* The block reaches itself through Refs.                                   *)
ReachesItself(Refs(_), name) ==
    name \in Reach(Refs, Refs(block_items[name]) \cap DOMAIN block_items,
                   Cardinality(DOMAIN block_items))

(* C19 as claimed: construct_by_name terminates for every namespace in      *)
(* which no block reaches itself through Include/IncludeVerbose, and when   *)
(* a block includes itself transitively its render never completes with a   *)
(* result: the recursion runs until the stack is exhausted.                 *)
C19_SelfIncludeNeverCompletes ==
    Rendered(arg) =>
        (result.err = "StackOverflow") = ReachesItself(Includes, arg)

(* C19 as amended: construct_by_name terminates when no block reaches       *)
(* itself through Include/IncludeVerbose.  A cycle is not detected: when    *)
(* the render of a block comes back to an Include of that block, it         *)
(* recurses until the stack is exhausted and never completes with a         *)
(* result.  A self-include that is never rendered, because it lies in a     *)
(* ForEach with both modes set or with nothing to iterate over, does not    *)
(* keep the render from completing.                                         *)
C19_RenderedCycleOverflows ==
    Rendered(arg) =>
        /\ ~ReachesItself(Includes, arg) => result.err # "StackOverflow"
        /\ ReachesItself(RenderedIncludes, arg) =>
              result.err = "StackOverflow"
        /\ (ReachesItself(Includes, arg)
              /\ RenderedIncludes(block_items[arg]) = {}) =>
              result.err # "StackOverflow"

(* A page and a part that include each other have been rendered to the end  *)
(* of the stack.                                                            *)
C19_Witness ==
    /\ Rendered(P)
    /\ block_items[Q] = Include(P)
    /\ block_items[P] = ForEach(Some(TwoValues), None, <<Include(Q)>>)
    /\ result.err = "StackOverflow"

----------------------------------------------------------------------------
(* C20: the text construct_by_name returns for a block is the same          *)
(* whichever blocks the builder rendered before it: it is the text a fresh  *)
(* builder returns for the block.                                           *)
(* (Violated: current_loop_value is not reset between pages, so a page      *)
(* that reads the loop value outside a loop shows the value the page        *)
(* before it bound last.)                                                   *)
C20_PageTextIndependentOfOrder ==
    Rendered(arg) =>
        LET r == construct_block(FreshSelf, block_items[arg])
        IN  /\ result.ok = r.ok
            /\ result.out = r.out

============================================================================
